---- MODULE Spec2Model ----
(***************************************************************************)
(* A model of the Jira task manager (src/jira_tm/core): a client that maps *)
(* tasks and checklists onto the issues and sub-tasks of a Jira backend.   *)
(*                                                                         *)
(* The client holds the fields of its connection object and nothing else.  *)
(* The state of the model is these fields, the clock, the backend's set    *)
(* of issues, and a record of the last operation the client ran: the       *)
(* requests it sent, what it returned and which issues its own requests    *)
(* changed.  Every operation is one action: all                            *)
(* of its HTTP round trips happen in it, in the order of the code.  The    *)
(* backend is shared, so between two round trips of one operation another  *)
(* client may change it (Race); between operations OtherClient does.       *)
(***************************************************************************)
EXTENDS Integers, Sequences, FiniteSets, TLC

\* ---------------------------------------------------------------- bounds

\* Issues ever created in the project (keys are 1..MaxIssues, never reused).
MaxIssues == 3
\* Longest checklist handed to update_task_with_checklist.
MaxItems == 2
\* The largest page the backend returns for one search, whatever maxResults asks.
ServerMaxResults == 2
\* Steps of other clients that may fall between the requests of one operation.
MaxRaces == 1
\* Longest description text, in words.
MaxDescLen == 3
\* The clock runs from 1 to MaxTime.
MaxTime == 2

\* ------------------------------------------------------- program constants

STATUS_TODO == "To Do"
STATUS_IN_PROGRESS == "In Progress"
STATUS_DONE == "Done"
ISSUE_TYPE_TASK == "Task"
ISSUE_TYPE_SUBTASK == "Sub-task"

\* max_results of _search_issues when the caller gives none.
DEFAULT_MAX_RESULTS == 50
\* max_results of every search by title, by parent and of get_next_task.
FIRST_MATCH_ONLY == 1
\* max_results of the search in delete_all_tasks.
DELETE_MAX_RESULTS == 1000

\* ------------------------------------------------------------ the backend

\* A status of the backend's workflow that is none of the three the client names.
STATUS_IN_REVIEW == "In Review"
Statuses == {STATUS_TODO, STATUS_IN_PROGRESS, STATUS_DONE, STATUS_IN_REVIEW}

\* Text is a sequence of words; words are small numbers.
Summaries == {<<1, 2>>}
Titles == {<<1>>, <<2>>, <<3>>}
\* The names of the checklist items created, and those completed by name.
Items == {<<2>>}
ItemNames == {<<1>>, <<2>>}
Targets == Statuses \cup {"Blocked"}

\* The workflow: every transition has an id, the statuses it leaves and the one
\* it enters.  Two transitions lead from In Progress to Done.
Workflow ==
  << [id |-> 11, from |-> {STATUS_TODO, STATUS_IN_REVIEW}, to |-> STATUS_IN_PROGRESS],
     [id |-> 21, from |-> {STATUS_IN_PROGRESS}, to |-> STATUS_IN_REVIEW],
     [id |-> 31, from |-> {STATUS_IN_PROGRESS, STATUS_IN_REVIEW}, to |-> STATUS_DONE],
     [id |-> 41, from |-> {STATUS_TODO, STATUS_IN_PROGRESS}, to |-> STATUS_DONE],
     [id |-> 51, from |-> {STATUS_DONE}, to |-> STATUS_TODO] >>

Min(a, b) == IF a <= b THEN a ELSE b

\* s ~ t of JQL: the text t occurs in the summary s.
Contains(s, t) ==
  \E i \in 1..(Len(s) - Len(t) + 1) : SubSeq(s, i, i + Len(t) - 1) = t

Keys(iss) == {i.key : i \in iss}
IssueOf(iss, k) == CHOOSE i \in iss : i.key = k

\* The keys of a set of issues in ascending order (keys follow creation).
RECURSIVE SortedKeys(_)
SortedKeys(ks) ==
  IF ks = {} THEN <<>>
  ELSE LET k == CHOOSE x \in ks : \A y \in ks : x <= y
       IN <<k>> \o SortedKeys(ks \ {k})

\* desc is the description document: the sequence of its text nodes, each a
\* sequence of words; <<>> is no description.
Issue(k, s, st, p, t, d) ==
  [key |-> k, summary |-> s, status |-> st, parent |-> p, itype |-> t, desc |-> d]

\* A JQL query, by its clauses: summary ~ "t" (<<>>: absent), parent = k (0:
\* absent), status = s and status != s ("": absent), and ORDER BY.
NoJql == [summary |-> <<>>, parent |-> 0, statusEq |-> "", statusNe |-> "", order |-> ""]

JqlMatches(jql, i) ==
  /\ jql.summary = <<>> \/ Contains(i.summary, jql.summary)
  /\ jql.parent = 0 \/ i.parent = jql.parent
  /\ jql.statusEq = "" \/ i.status = jql.statusEq
  /\ jql.statusNe = "" \/ i.status # jql.statusNe

\* The pages the backend may answer a search with: the first maxResults issues
\* (at most ServerMaxResults) in the order of the query.  ORDER BY created ASC
\* fixes the order.  Without ORDER BY the backend chooses it, and under ORDER
\* BY priority the priorities, which the client never sets, decide: any
\* matching issue may come first, so any subset of the size is a page.  A
\* page is listed by ascending key.
SearchPages(iss, jql, maxResults) ==
  LET found == {i \in iss : JqlMatches(jql, i)}
      n == Min(Min(maxResults, ServerMaxResults), Cardinality(found))
      byKey(ks) == [j \in 1..Cardinality(ks) |-> IssueOf(iss, SortedKeys(ks)[j])]
  IN IF jql.order = "created ASC"
     THEN {SubSeq(byKey(Keys(found)), 1, n)}
     ELSE {byKey(ks) : ks \in {x \in SUBSET Keys(found) : Cardinality(x) = n}}

\* GET /issue/{key}/transitions: the transitions that leave the issue's status.
TransitionsFrom(st) == SelectSeq(Workflow, LAMBDA t : st \in t.from)

\* The issue k and its sub-tasks.
WithSubtasks(iss, k) == {i \in iss : i.key = k \/ i.parent = k}

SetStatus(iss, k, st) ==
  {IF i.key = k THEN [i EXCEPT !.status = st] ELSE i : i \in iss}

SetDesc(iss, k, d) ==
  {IF i.key = k THEN [i EXCEPT !.desc = d] ELSE i : i \in iss}

\* One step of another client of the same project: it deletes an issue with its
\* sub-tasks, or moves an issue to another status.
OtherClientSteps(iss) ==
  ({iss \ WithSubtasks(iss, k) : k \in Keys(iss)}
     \cup {SetStatus(iss, k, st) : k \in Keys(iss), st \in Statuses}) \ {iss}

\* The keys of the issues that differ between two states of the backend.
Changed(a, b) == Keys((a \ b) \cup (b \ a))

\* -------------------------------------------------------- the connection

\* The environment the configuration is read from.
JIRA_SERVER_URL == "https://jira"
JIRA_PROJECT_KEY == "P"

\* The fields JiraConnection.__init__ sets (auth is left out): the only state
\* an object of the client holds, besides each manager's reference to it.
JiraConnection ==
  [server_url |-> JIRA_SERVER_URL, project_key |-> JIRA_PROJECT_KEY,
   base_url |-> JIRA_SERVER_URL \o "/rest/api/3"]

VARIABLES issues, nextKey, last, connection, clock

\* A request, by the fields the client fills in; the url is base_url and the
\* endpoint.
Request(m, ep, k) ==
  [m |-> m, url |-> connection.base_url \o ep, ep |-> ep, key |-> k,
   jql |-> NoJql, max |-> 0, id |-> 0,
   summary |-> <<>>, parent |-> 0, itype |-> "", desc |-> <<>>]

\* What _make_request gives its caller: an exception, None, or the JSON body.
Raised == [raised |-> TRUE, none |-> FALSE, key |-> 0, issues |-> <<>>, transitions |-> <<>>]
None == [raised |-> FALSE, none |-> TRUE, key |-> 0, issues |-> <<>>, transitions |-> <<>>]
Json(k, is, ts) == [raised |-> FALSE, none |-> FALSE, key |-> k, issues |-> is, transitions |-> ts]

\* The backend's answer to a request in state (iss, nxt): the new state, the
\* HTTP status code and the body (Json) when there is one.  A request that
\* names an issue that is gone is answered 404; a search by a parent that is
\* gone, a sub-task of a sub-task and a transition that does not leave the
\* issue's status are refused (400); a sub-task of a parent that is gone is
\* refused or not found.
Answer(iss, nxt, code, content, body) ==
  [iss |-> iss, nxt |-> nxt, code |-> code, content |-> content, body |-> body]

Backend(iss, nxt, req) ==
  CASE req.ep = "/search" ->
         IF req.jql.parent # 0 /\ req.jql.parent \notin Keys(iss)
         THEN {Answer(iss, nxt, 400, TRUE, None)}
         ELSE {Answer(iss, nxt, 200, TRUE, Json(0, page, <<>>)) :
                 page \in SearchPages(iss, req.jql, req.max)}
    [] req.ep = "/issue" /\ req.m = "POST" ->
         IF req.parent # 0 /\ req.parent \notin Keys(iss)
         THEN {Answer(iss, nxt, code, TRUE, None) : code \in {400, 404}}
         ELSE IF req.parent # 0 /\ IssueOf(iss, req.parent).parent # 0
         THEN {Answer(iss, nxt, 400, TRUE, None)}
         ELSE {Answer(iss \cup {Issue(nxt, req.summary, STATUS_TODO, req.parent,
                                      req.itype, req.desc)},
                      nxt + 1, 201, TRUE, Json(nxt, <<>>, <<>>))}
    [] req.key \notin Keys(iss) ->
         {Answer(iss, nxt, 404, TRUE, None)}
    [] req.ep = "/issue/{key}/transitions" /\ req.m = "GET" ->
         {Answer(iss, nxt, 200, TRUE,
                 Json(0, <<>>, TransitionsFrom(IssueOf(iss, req.key).status)))}
    [] req.ep = "/issue/{key}/transitions" /\ req.m = "POST" ->
         LET ts == SelectSeq(TransitionsFrom(IssueOf(iss, req.key).status),
                             LAMBDA t : t.id = req.id)
         IN IF ts = <<>>
            THEN {Answer(iss, nxt, 400, TRUE, None)}
            ELSE {Answer(SetStatus(iss, req.key, ts[1].to), nxt, 204, FALSE, None)}
    [] req.ep = "/issue/{key}" /\ req.m = "PUT" ->
         {Answer(SetDesc(iss, req.key, req.desc), nxt, 204, FALSE, None)}
    [] req.ep = "/issue/{key}?deleteSubtasks=true" /\ req.m = "DELETE" ->
         {Answer(iss \ WithSubtasks(iss, req.key), nxt, 204, FALSE, None)}

\* _make_request: 404 is None, any other error status raises, an empty body is None.
_make_request(answer) ==
  IF answer.code = 404 THEN None
  ELSE IF answer.code >= 400 THEN Raised
  ELSE IF answer.content THEN answer.body
  ELSE None

\* An operation under way: the backend, the round trips so far (each request
\* with what _make_request returned for it), the issues these requests changed,
\* and the steps other clients took in between.
Run(iss, nxt) == [iss |-> iss, nxt |-> nxt, log |-> <<>>, touched |-> {}, races |-> 0]

\* Before a further request another client may take a step.
Race(r) ==
  {r} \cup IF r.races < MaxRaces
           THEN {[r EXCEPT !.iss = x, !.races = @ + 1] : x \in OtherClientSteps(r.iss)}
           ELSE {}

\* One round trip: the run after it, and what _make_request returned.
Exchange(r, req) ==
  {[run |-> [r EXCEPT !.iss = a.iss, !.nxt = a.nxt,
                      !.log = Append(@, [req |-> req, res |-> _make_request(a)]),
                      !.touched = @ \cup Changed(r.iss, a.iss)],
    res |-> _make_request(a)] : a \in Backend(r.iss, r.nxt, req)}

\* _search_issues: POST /search; the issues of the answer, [] when there is none.
SearchRequest(jql, max_results) ==
  [Request("POST", "/search", 0) EXCEPT !.jql = jql, !.max = max_results]

_search_issues(r, jql, max_results) ==
  {[run |-> x.run, raised |-> x.res.raised,
    issues |-> IF x.res.none \/ x.res.raised THEN <<>> ELSE x.res.issues] :
     x \in Exchange(r, SearchRequest(jql, max_results))}

\* ------------------------------------------------------- what is returned

\* What an operation returns or raises.  kind: "ok" (the success message),
\* "unavailable" (the 'transition not available' message), "none" (None with
\* the 'no tasks' message), or the name of the exception raised.  issue: the key
\* of the issue returned; status, n, tasks: what the message or the list holds.
Ret(kind, k) == [kind |-> kind, issue |-> k, status |-> "", n |-> 0, tasks |-> <<>>]

\* project = <key> AND summary ~ "<title>"
TitleJql(title) == [NoJql EXCEPT !.summary = title]

\* ------------------------------------------------------------------ state

\* issues, nextKey: the backend.  last: the last operation.  connection: the
\* fields of the client's connection object.  clock: what datetime.now() reads.
vars == <<issues, nextKey, last, connection, clock>>

\* A call of an operation: its name and its arguments.
Call(op, title, target, text, items) ==
  [op |-> op, title |-> title, target |-> target, text |-> text, items |-> items]

\* The record of an operation: the call, the issue its title search found (0:
\* none), its round trips, the issues they changed, the steps other clients took
\* meanwhile, and what it returned.
Op(c, r, found, ret) ==
  [op |-> c.op, title |-> c.title, target |-> c.target, text |-> c.text,
   items |-> c.items, found |-> found, log |-> r.log, touched |-> r.touched,
   races |-> r.races, ret |-> ret]

NoOp == Op(Call("", <<>>, "", <<>>, <<>>), Run({}, 0), 0, Ret("", 0))

\* The client runs one operation at a time; its caller takes the result (Return)
\* before the next one starts.
Idle == last = NoOp

\* An operation that keeps the issue it found in a field of the connection.
EndsCaching(c, r, found, ret) ==
  /\ issues' = r.iss
  /\ nextKey' = r.nxt
  /\ last' = Op(c, r, found, ret)
  /\ connection' = [server_url |-> connection.server_url,
                    project_key |-> connection.project_key,
                    base_url |-> connection.base_url, cache |-> found]
  /\ UNCHANGED clock

\* The operation ends: the backend is as the run left it.  No method assigns a
\* field of the connection or of a manager.
Ends(c, r, found, ret) ==
  /\ issues' = r.iss
  /\ nextKey' = r.nxt
  /\ last' = Op(c, r, found, ret)
  /\ UNCHANGED <<connection, clock>>

\* The run of an operation that starts now.
Start == Run(issues, nextKey)

\* A title search that leaves max_results to its default.
TitleSearchDefault(title) == _search_issues(Start, TitleJql(title), DEFAULT_MAX_RESULTS)

\* The search every title-based operation starts with, and how the operation
\* ends when the search finds nothing: it raises TaskNotFoundError.
TitleSearch(title) == _search_issues(Start, TitleJql(title), FIRST_MATCH_ONLY)

NoIssues(s) == s.raised \/ s.issues = <<>>

\* An operation that reports the missing task in a message and does not raise.
NotFoundMessage(c, s) == Ends(c, s.run, 0, Ret("unavailable", 0))

NotFound(c, s) ==
  IF s.raised THEN Ends(c, s.run, 0, Ret("HTTPError", 0))
  ELSE Ends(c, s.run, 0, Ret("TaskNotFoundError", 0))

\* ------------------------------------------------------ status management

\* A loop that does not stop at the first match: the last one wins.
LastTransitionTo(transitions, target_status) ==
  LET to == SelectSeq(transitions, LAMBDA t : t.to = target_status)
  IN IF to = <<>> THEN 0 ELSE to[Len(to)].id

\* A loop that falls back on the first transition when none leads to the target.
FirstTransitionOrAny(transitions, target_status) ==
  LET to == SelectSeq(transitions, LAMBDA t : t.to = target_status)
  IN IF to # <<>> THEN to[1].id
     ELSE IF transitions # <<>> THEN transitions[1].id ELSE 0

\* The loop of _find_transition_id: the id of the first transition that leads to
\* target_status, None (0) when there is none.
FirstTransitionTo(transitions, target_status) ==
  LET to == SelectSeq(transitions, LAMBDA t : t.to = target_status)
  IN IF to = <<>> THEN 0 ELSE to[1].id

_get_transitions(r, issue_key) ==
  {[run |-> x.run, raised |-> x.res.raised,
    transitions |-> IF x.res.none \/ x.res.raised THEN <<>> ELSE x.res.transitions] :
     x \in Exchange(r, Request("GET", "/issue/{key}/transitions", issue_key))}

_find_transition_id(r, issue_key, target_status) ==
  {[run |-> x.run, raised |-> x.raised,
    id |-> FirstTransitionTo(x.transitions, target_status)] :
     x \in _get_transitions(r, issue_key)}

_transition_issue(r, issue_key, transition_id) ==
  Exchange(r, [Request("POST", "/issue/{key}/transitions", issue_key)
                 EXCEPT !.id = transition_id])

\* A transition applied without looking up what the issue offers.
TransitionBlind(c, r, found, issue_key, target_status) ==
  \E r1 \in Race(r) : \E t \in _transition_issue(r1, issue_key, 41) :
    IF t.res.raised THEN Ends(c, t.run, found, Ret("HTTPError", 0))
    ELSE Ends(c, t.run, found, Ret("ok", issue_key))

\* After the issue is found: look the transition to target_status up and apply
\* it.  What the POST answers is not looked at.
Transition(c, r, found, issue_key, target_status) ==
  \E r1 \in Race(r) : \E f \in _find_transition_id(r1, issue_key, target_status) :
    IF f.raised THEN Ends(c, f.run, found, Ret("HTTPError", 0))
    ELSE IF f.id = 0 THEN Ends(c, f.run, found, Ret("unavailable", issue_key))
    ELSE \E r2 \in Race(f.run) : \E t \in _transition_issue(r2, issue_key, f.id) :
           IF t.res.raised THEN Ends(c, t.run, found, Ret("HTTPError", 0))
           ELSE Ends(c, t.run, found, Ret("ok", issue_key))

_set_task_status(op, title, target_status) ==
  LET c == Call(op, title, target_status, <<>>, <<>>)
  IN \E s \in TitleSearch(title) :
       IF NoIssues(s) THEN NotFound(c, s)
       ELSE Transition(c, s.run, s.issues[1].key, s.issues[1].key, target_status)

mark_as_in_progress ==
  /\ Idle
  /\ \E title \in Titles :
       _set_task_status("mark_as_in_progress", title, STATUS_IN_PROGRESS)

mark_as_completed ==
  /\ Idle
  /\ \E title \in Titles : _set_task_status("mark_as_completed", title, STATUS_DONE)

get_task_status ==
  /\ Idle
  /\ \E title \in Titles :
       LET c == Call("get_task_status", title, "", <<>>, <<>>)
       IN \E s \in TitleSearch(title) :
            IF NoIssues(s) THEN NotFound(c, s)
            ELSE LET issue == s.issues[1]
                 IN Ends(c, s.run, issue.key,
                         [Ret("ok", issue.key) EXCEPT !.status = issue.status])

set_task_status ==
  /\ Idle
  /\ \E title \in Titles, target_status \in Targets :
       _set_task_status("set_task_status", title, target_status)

\* ------------------------------------------------------------- core tasks

Descriptions == {<<"d">>}

\* The document add_task and update_task_description send: one paragraph with
\* one text node.
Doc(text) == <<text>>

\* _get_description_text: the text nodes of the document joined ("" when the
\* issue has no description).
RECURSIVE _get_description_text(_)
_get_description_text(description) ==
  IF description = <<>> THEN <<>>
  ELSE Head(description) \o _get_description_text(Tail(description))

add_task ==
  /\ Idle
  /\ nextKey <= MaxIssues
  /\ \E title \in Summaries, description \in Descriptions :
       LET c == Call("add_task", title, "", description, <<>>)
           req == [Request("POST", "/issue", 0) EXCEPT
                     !.summary = title, !.itype = ISSUE_TYPE_TASK,
                     !.desc = Doc(description)]
       IN \E x \in Exchange(Start, req) :
            IF x.res.raised THEN Ends(c, x.run, 0, Ret("HTTPError", 0))
            ELSE Ends(c, x.run, 0, Ret("ok", x.res.key))

\* project = <key> AND status = "To Do" ORDER BY priority DESC, created ASC
NextTaskJql ==
  [NoJql EXCEPT !.statusEq = STATUS_TODO, !.order = "priority DESC, created ASC"]

get_next_task ==
  /\ Idle
  /\ LET c == Call("get_next_task", <<>>, "", <<>>, <<>>)
     IN \E s \in _search_issues(Start, NextTaskJql, FIRST_MATCH_ONLY) :
          IF s.raised THEN Ends(c, s.run, 0, Ret("HTTPError", 0))
          ELSE IF s.issues # <<>> THEN Ends(c, s.run, 0, Ret("ok", s.issues[1].key))
          ELSE Ends(c, s.run, 0, Ret("none", 0))

\* The times the clock may show, and the timestamp strftime makes of one.
Times == 1..MaxTime
strftime(now) == ToString(now)

\* The new text of update_task_description: the current text, a line with the
\* time of the update, the new description; or, without a current text, a line
\* with the time and the description.
UpdatedDescription(current_description, description, timestamp) ==
  IF current_description # <<>>
  THEN current_description \o <<"--- Updated on " \o timestamp \o " ---">>
         \o description
  ELSE <<"--- Created on " \o timestamp \o " ---">> \o description

\* The PUT of update_task_description for the issue found.
UpdateRequest(issue, description, timestamp) ==
  [Request("PUT", "/issue/{key}", issue.key) EXCEPT
     !.desc = Doc(UpdatedDescription(_get_description_text(issue.desc),
                                     description, timestamp))]

update_task_description ==
  /\ Idle
  /\ \E title \in Titles, description \in Descriptions :
       LET c == Call("update_task_description", title, "", description, <<>>)
       IN \E s \in TitleSearch(title) :
            IF NoIssues(s) THEN NotFound(c, s)
            ELSE LET issue == s.issues[1]
                     req == UpdateRequest(issue, description, strftime(clock))
                 IN /\ Len(req.desc[1]) <= MaxDescLen
                    /\ \E r1 \in Race(s.run) : \E x \in Exchange(r1, req) :
                         IF x.res.raised
                         THEN Ends(c, x.run, issue.key, Ret("HTTPError", 0))
                         ELSE Ends(c, x.run, issue.key, Ret("ok", issue.key))

\* ---------------------------------------------------- checklist management

SubtaskRequest(parent_key, item) ==
  [Request("POST", "/issue", 0) EXCEPT
     !.summary = item, !.itype = ISSUE_TYPE_SUBTASK, !.parent = parent_key]

\* A loop that counts every item, answered or not.
RECURSIVE CreateSubtasksCountAll(_, _, _, _)
CreateSubtasksCountAll(r, parent_key, checklist_items, created_subtasks) ==
  IF checklist_items = <<>>
  THEN {[run |-> r, raised |-> FALSE, created |-> created_subtasks]}
  ELSE UNION {
    IF x.res.raised
    THEN {[run |-> x.run, raised |-> TRUE, created |-> created_subtasks]}
    ELSE CreateSubtasksCountAll(x.run, parent_key, Tail(checklist_items),
                                Append(created_subtasks, x.res.key)) :
    x \in UNION {Exchange(r1, SubtaskRequest(parent_key, Head(checklist_items))) :
                   r1 \in Race(r)}}

\* The loop of update_task_with_checklist: one POST per item; the key of the
\* answer is kept when there is an answer.
RECURSIVE CreateSubtasks(_, _, _, _)
CreateSubtasks(r, parent_key, checklist_items, created_subtasks) ==
  IF checklist_items = <<>>
  THEN {[run |-> r, raised |-> FALSE, created |-> created_subtasks]}
  ELSE UNION {
    IF x.res.raised
    THEN {[run |-> x.run, raised |-> TRUE, created |-> created_subtasks]}
    ELSE CreateSubtasks(x.run, parent_key, Tail(checklist_items),
                        IF x.res.none THEN created_subtasks
                        ELSE Append(created_subtasks, x.res.key)) :
    x \in UNION {Exchange(r1, SubtaskRequest(parent_key, Head(checklist_items))) :
                   r1 \in Race(r)}}

Checklists == UNION {[1..n -> Items] : n \in 0..MaxItems}

update_task_with_checklist ==
  /\ Idle
  /\ \E title \in Titles, checklist_items \in Checklists :
       LET c == Call("update_task_with_checklist", title, "", <<>>, checklist_items)
       IN /\ nextKey + Len(checklist_items) - 1 <= MaxIssues
          /\ \E s \in TitleSearch(title) :
               IF NoIssues(s) THEN NotFound(c, s)
               ELSE LET parent_key == s.issues[1].key
                    IN \E l \in CreateSubtasks(s.run, parent_key, checklist_items, <<>>) :
                         IF l.raised THEN Ends(c, l.run, parent_key, Ret("HTTPError", 0))
                         ELSE Ends(c, l.run, parent_key,
                                   [Ret("ok", parent_key) EXCEPT !.n = Len(l.created)])

\* A search for the item by its name alone, in the whole project.
ItemJqlAnyParent(parent_key, checklist_item_name) ==
  [NoJql EXCEPT !.summary = checklist_item_name]

\* parent = <key> AND summary ~ "<name>"
ItemJql(parent_key, checklist_item_name) ==
  [NoJql EXCEPT !.parent = parent_key, !.summary = checklist_item_name]

\* The query without its ORDER BY.
UncheckedJqlUnordered(parent_key) ==
  [NoJql EXCEPT !.parent = parent_key, !.statusNe = STATUS_DONE]

\* parent = <key> AND status != "Done" ORDER BY created ASC
UncheckedJql(parent_key) ==
  [NoJql EXCEPT !.parent = parent_key, !.statusNe = STATUS_DONE, !.order = "created ASC"]

complete_checklist_item ==
  /\ Idle
  /\ \E title \in Titles, checklist_item_name \in ItemNames :
       LET c == Call("complete_checklist_item", title, STATUS_DONE,
                     checklist_item_name, <<>>)
       IN \E s \in TitleSearch(title) :
            IF NoIssues(s) THEN NotFound(c, s)
            ELSE LET parent_key == s.issues[1].key
                 IN \E r1 \in Race(s.run) :
                      \E t \in _search_issues(r1, ItemJql(parent_key, checklist_item_name),
                                              FIRST_MATCH_ONLY) :
                        IF t.raised THEN Ends(c, t.run, parent_key, Ret("HTTPError", 0))
                        ELSE IF t.issues = <<>>
                          THEN Ends(c, t.run, parent_key, Ret("ChecklistNotFoundError", 0))
                        ELSE Transition(c, t.run, parent_key, t.issues[1].key, STATUS_DONE)

get_next_unchecked_checklist_item ==
  /\ Idle
  /\ \E title \in Titles :
       LET c == Call("get_next_unchecked_checklist_item", title, "", <<>>, <<>>)
       IN \E s \in TitleSearch(title) :
            IF NoIssues(s) THEN NotFound(c, s)
            ELSE LET parent_key == s.issues[1].key
                 IN \E r1 \in Race(s.run) :
                      \E t \in _search_issues(r1, UncheckedJql(parent_key),
                                              FIRST_MATCH_ONLY) :
                        IF t.raised THEN Ends(c, t.run, parent_key, Ret("HTTPError", 0))
                        ELSE IF t.issues = <<>>
                          THEN Ends(c, t.run, parent_key,
                                    Ret("ChecklistItemNotFoundError", 0))
                        ELSE Ends(c, t.run, parent_key, Ret("ok", t.issues[1].key))

\* ---------------------------------------------------------- task querying

\* The modules constants.py of the package and of core, which utils.py and
\* task_querying.py import the status names from: the three statuses.
constants ==
  [STATUS_TODO |-> "To Do", STATUS_IN_PROGRESS |-> "In Progress",
   STATUS_DONE |-> "Done"]
core_constants ==
  [STATUS_TODO |-> "To Do", STATUS_IN_PROGRESS |-> "In Progress",
   STATUS_DONE |-> "Done"]

\* A normalization that knows the three statuses and no other.
normalize_status_strict(jira_status) ==
  IF jira_status = STATUS_DONE THEN "done"
  ELSE IF jira_status = STATUS_IN_PROGRESS THEN "wip"
  ELSE IF jira_status = STATUS_TODO THEN "todo"
  ELSE "unknown"

\* utils.normalize_status
normalize_status(jira_status) ==
  IF jira_status = constants.STATUS_DONE THEN "done"
  ELSE IF jira_status = constants.STATUS_IN_PROGRESS THEN "wip"
  ELSE "todo"

\* TaskQueryManager._normalize_status
_normalize_status(jira_status) ==
  IF jira_status = core_constants.STATUS_DONE THEN "done"
  ELSE IF jira_status = core_constants.STATUS_IN_PROGRESS THEN "wip"
  ELSE "todo"

\* JiraTaskManager._normalize_status
JiraTaskManager_normalize_status(jira_status) ==
  IF jira_status = STATUS_DONE THEN "done"
  ELSE IF jira_status = STATUS_IN_PROGRESS THEN "wip"
  ELSE "todo"

\* Status names a backend may hold: those of the workflow, one of another
\* workflow, the empty name and names that differ in case or spacing only.
StatusNames ==
  Statuses \cup {"Blocked", "", "done", "DONE", "in progress", "In Progress "}

\* A call of one copy of the normalization: the name given and the value returned.
Normalizes(copy, jira_status, value) ==
  Ends(Call(copy, <<>>, jira_status, <<>>, <<>>), Start, 0,
       [Ret("ok", 0) EXCEPT !.status = value])

NormalizeByUtils ==
  /\ Idle
  /\ \E jira_status \in StatusNames :
       Normalizes("utils.normalize_status", jira_status, normalize_status(jira_status))

NormalizeByTaskQueryManager ==
  /\ Idle
  /\ \E jira_status \in StatusNames :
       Normalizes("TaskQueryManager._normalize_status", jira_status,
                  _normalize_status(jira_status))

NormalizeByJiraTaskManager ==
  /\ Idle
  /\ \E jira_status \in StatusNames :
       Normalizes("JiraTaskManager._normalize_status", jira_status,
                  JiraTaskManager_normalize_status(jira_status))

\* The query of get_tasks for a filter.
FilterJql(filter_type) ==
  IF filter_type = "wip" THEN [NoJql EXCEPT !.statusEq = STATUS_IN_PROGRESS]
  ELSE IF filter_type = "done" THEN [NoJql EXCEPT !.statusEq = STATUS_DONE]
  ELSE NoJql

\* The task dictionaries of get_tasks (the name and description are left out).
TaskDicts(found) ==
  [j \in 1..Len(found) |->
     [id |-> found[j].key, status |-> _normalize_status(found[j].status)]]

Filters == {"all", "wip", "done"}

get_tasks ==
  /\ Idle
  /\ \E filter_type \in Filters :
       LET c == Call("get_tasks", <<>>, filter_type, <<>>, <<>>)
       IN \E s \in _search_issues(Start, FilterJql(filter_type), DEFAULT_MAX_RESULTS) :
            IF s.raised THEN Ends(c, s.run, 0, Ret("HTTPError", 0))
            ELSE Ends(c, s.run, 0,
                      [Ret("ok", 0) EXCEPT !.tasks = TaskDicts(s.issues),
                                            !.n = Len(s.issues)])

\* The loop of delete_all_tasks: one DELETE per issue of the page, each counted.
RECURSIVE DeleteEach(_, _, _)
DeleteEach(r, found, deleted_count) ==
  IF found = <<>>
  THEN {[run |-> r, raised |-> FALSE, count |-> deleted_count]}
  ELSE UNION {
    IF x.res.raised
    THEN {[run |-> x.run, raised |-> TRUE, count |-> deleted_count]}
    ELSE DeleteEach(x.run, Tail(found), deleted_count + 1) :
    x \in UNION {Exchange(r1, Request("DELETE", "/issue/{key}?deleteSubtasks=true",
                                      Head(found).key)) : r1 \in Race(r)}}

delete_all_tasks ==
  /\ Idle
  /\ LET c == Call("delete_all_tasks", <<>>, "", <<>>, <<>>)
     IN \E s \in _search_issues(Start, NoJql, DELETE_MAX_RESULTS) :
          IF s.raised THEN Ends(c, s.run, 0, Ret("HTTPError", 0))
          ELSE \E d \in DeleteEach(s.run, s.issues, 0) :
                 IF d.raised THEN Ends(c, d.run, 0, Ret("HTTPError", 0))
                 ELSE Ends(c, d.run, 0, [Ret("ok", 0) EXCEPT !.n = d.count])

\* ------------------------------------------------------------ environment

\* Another client changes the project while this client runs no operation.
OtherClient ==
  /\ Idle
  /\ issues' \in OtherClientSteps(issues)
  /\ UNCHANGED <<nextKey, last, connection, clock>>

\* The caller has the result of the operation.
Return ==
  /\ ~Idle
  /\ last' = NoOp
  /\ UNCHANGED <<issues, nextKey, connection, clock>>

\* Time passes between two operations.
Tick ==
  /\ Idle
  /\ clock < MaxTime
  /\ clock' = clock + 1
  /\ UNCHANGED <<issues, nextKey, last, connection>>

Init ==
  /\ issues = {}
  /\ nextKey = 1
  /\ last = NoOp
  /\ connection = JiraConnection
  /\ clock = 1

\* The operations of the status manager.
StatusOps ==
  \/ mark_as_in_progress
  \/ mark_as_completed
  \/ get_task_status
  \/ set_task_status

\* The operations of the checklist manager.
ChecklistOps ==
  \/ update_task_with_checklist
  \/ complete_checklist_item
  \/ get_next_unchecked_checklist_item

\* The operations of the query manager, and get_next_task.
QueryOps ==
  \/ get_next_task
  \/ get_tasks
  \/ delete_all_tasks

Next ==
  \/ add_task
  \/ update_task_description
  \/ StatusOps
  \/ ChecklistOps
  \/ QueryOps
  \/ OtherClient
  \/ Return

\* Every operation of the client, at one reading of the clock.
Spec == Init /\ [][Next]_vars

\* The status manager alone, on tasks.
NextStatus == add_task \/ StatusOps \/ OtherClient \/ Return
SpecStatus == Init /\ [][NextStatus]_vars

\* The checklist manager, with set_task_status.
NextChecklist == add_task \/ set_task_status \/ ChecklistOps \/ OtherClient \/ Return
SpecChecklist == Init /\ [][NextChecklist]_vars

\* The queries, on tasks and sub-tasks.
NextQuery == add_task \/ update_task_with_checklist \/ QueryOps \/ OtherClient \/ Return
SpecQuery == Init /\ [][NextQuery]_vars

\* Reading and describing tasks while time passes.
NextClock ==
  \/ add_task
  \/ update_task_description
  \/ get_task_status
  \/ get_tasks
  \/ Tick
  \/ OtherClient
  \/ Return
SpecClock == Init /\ [][NextClock]_vars

\* The three copies of the status normalization, and get_tasks, which applies
\* one of them to the statuses of the backend.
NextNormalize ==
  \/ add_task
  \/ get_tasks
  \/ NormalizeByUtils
  \/ NormalizeByTaskQueryManager
  \/ NormalizeByJiraTaskManager
  \/ OtherClient
  \/ Return
SpecNormalize == Init /\ [][NextNormalize]_vars

\* ----------------------------------------------------------- properties

\* The round trips of the last operation, by kind.
IsSearch(e) == e.req.ep = "/search"
IsGetTransitions(e) == e.req.ep = "/issue/{key}/transitions" /\ e.req.m = "GET"
IsPostTransition(e) == e.req.ep = "/issue/{key}/transitions" /\ e.req.m = "POST"
IsCreate(e) == e.req.ep = "/issue" /\ e.req.m = "POST"
IsPut(e) == e.req.m = "PUT"
IsDelete(e) == e.req.m = "DELETE"

\* The issues a search round trip returned to the client.
Returned(e) == IF e.res.raised \/ e.res.none THEN <<>> ELSE e.res.issues

SetStatusOps == {"set_task_status", "mark_as_in_progress", "mark_as_completed"}

\* The issue with key k has status st in the backend.
HasStatus(k, st) == \E i \in issues : i.key = k /\ i.status = st

\* C1: set_task_status, mark_as_in_progress and mark_as_completed, once the
\* title search has found an issue, fetch the transitions of that issue's key;
\* every transition they apply is applied to that key, after the fetch, and is
\* the first transition of the fetched list that leads to the target; in the
\* workflow that transition leads to the target; and the success message is
\* returned only after applying one.
C1_FirstMatchingTransition ==
  (last.op \in SetStatusOps /\ last.found # 0) =>
    /\ Len(last.log) >= 2
    /\ IsGetTransitions(last.log[2]) /\ last.log[2].req.key = last.found
    /\ \A j \in 1..Len(last.log) :
         IsPostTransition(last.log[j]) =>
           LET ts == last.log[2].res.transitions
               req == last.log[j].req
           IN /\ j = 3
              /\ req.key = last.found
              /\ \E m \in 1..Len(ts) :
                   /\ ts[m].to = last.target
                   /\ \A n \in 1..(m - 1) : ts[n].to # last.target
                   /\ req.id = ts[m].id
              /\ \A m \in 1..Len(Workflow) :
                   Workflow[m].id = req.id => Workflow[m].to = last.target
    /\ last.ret.kind = "ok" => Len(last.log) = 3 /\ IsPostTransition(last.log[3])

\* C1's case: a transition was applied although a later transition of the
\* fetched list leads to the target as well.
C1_Witness ==
  /\ last.op \in SetStatusOps /\ last.found # 0 /\ last.ret.kind = "ok"
  /\ Len(last.log) = 3
  /\ HasStatus(last.found, last.target)
  /\ \E m, n \in 1..Len(last.log[2].res.transitions) :
       /\ m < n
       /\ last.log[2].res.transitions[m].to = last.target
       /\ last.log[2].res.transitions[n].to = last.target

\* C2: when set_task_status, mark_as_in_progress or mark_as_completed returns
\* its success message, the located issue has the target status in the backend.
C2_SuccessMeansTargetStatus ==
  (last.op \in SetStatusOps /\ last.ret.kind = "ok") =>
    HasStatus(last.found, last.target)

\* The operations that start with a search by title.
TitleOps ==
  SetStatusOps \cup {"get_task_status", "update_task_description",
                     "update_task_with_checklist", "complete_checklist_item",
                     "get_next_unchecked_checklist_item"}

\* The key the first round trip, the title search, returned (0: none).
FirstFound == IF Returned(last.log[1]) = <<>> THEN 0 ELSE Returned(last.log[1])[1].key

\* The round trip j of the last operation searched the sub-tasks of the found
\* issue and got the sub-task k first.
SubtaskFound(j, k) ==
  /\ IsSearch(last.log[j]) /\ last.log[j].req.jql.parent = last.found
  /\ Returned(last.log[j]) # <<>> /\ Returned(last.log[j])[1].key = k

\* The round trip j of the last operation created the sub-task k of the found issue.
SubtaskCreated(j, k) ==
  /\ IsCreate(last.log[j]) /\ last.log[j].req.parent = last.found
  /\ ~last.log[j].res.raised /\ ~last.log[j].res.none /\ last.log[j].res.key = k

\* What a title-based operation asks for and changes: it asks for one issue by
\* title; every later request names the issue found, or a sub-task of it that a
\* search by parent returned, or creates a sub-task of it; and its requests
\* change no other issue.
ActsOnFoundOnly ==
  /\ IsSearch(last.log[1]) /\ last.log[1].req.jql = TitleJql(last.title)
  /\ last.log[1].req.max = 1
  /\ Len(Returned(last.log[1])) <= 1
  /\ last.found = FirstFound
  /\ \A j \in 2..Len(last.log) :
       LET req == last.log[j].req
       IN \/ IsSearch(last.log[j]) /\ req.jql.parent = last.found
          \/ IsCreate(last.log[j]) /\ req.parent = last.found
          \/ ~IsSearch(last.log[j]) /\ ~IsCreate(last.log[j])
               /\ (req.key = last.found \/ \E h \in 1..(j - 1) : SubtaskFound(h, req.key))
  /\ \A k \in last.touched :
       \/ k = last.found
       \/ \E j \in 1..Len(last.log) : SubtaskFound(j, k) \/ SubtaskCreated(j, k)

\* C3 (amended): a title-based operation asks for at most the first match of the
\* title and acts only on that issue and on its sub-tasks; when no other client
\* steps in, every other issue of the project is left as it was.
C3_OnlyFirstMatchAndItsSubtasks ==
  [][last'.op \in TitleOps =>
       /\ ActsOnFoundOnly'
       /\ last'.races = 0 =>
            \A i \in issues :
              (i.key # last'.found /\ i.parent # last'.found) => i \in issues']_vars

\* C3's case: the status of the first match was set while another issue that
\* matches the title, and is no sub-task of it, exists.
C3_Witness ==
  /\ last.op = "set_task_status" /\ last.ret.kind = "ok" /\ last.touched = {last.found}
  /\ \E i \in issues :
       /\ i.key # last.found /\ i.parent # last.found
       /\ Contains(i.summary, last.title)

\* C3 as stated: when no other client steps in, a title-based operation leaves
\* every issue that matches the title, other than the one found, unchanged.
C3_OtherMatchesUnchanged ==
  [][(last'.op \in TitleOps /\ last'.races = 0) =>
       \A i \in issues :
         (i.key # last'.found /\ Contains(i.summary, last'.title)) => i \in issues']_vars

\* C4: when the title search returns no issue, a title-based operation raises
\* TaskNotFoundError after that one request, and the backend is as it was.
C4_NotFoundRaisesAndStops ==
  [][(/\ last'.op \in TitleOps
      /\ ~last'.log[1].res.raised
      /\ Returned(last'.log[1]) = <<>>) =>
       /\ last'.ret.kind = "TaskNotFoundError"
       /\ Len(last'.log) = 1
       /\ last'.touched = {}
       /\ issues' = issues /\ nextKey' = nextKey]_vars

\* C4's case: the project holds issues, none matches the title, and the
\* operation has raised TaskNotFoundError.
C4_Witness ==
  /\ last.op \in TitleOps /\ last.ret.kind = "TaskNotFoundError"
  /\ issues # {}
  /\ \A i \in issues : ~Contains(i.summary, last.title)

\* C5: when the transitions fetched for the issue (the found task, or the found
\* sub-task in complete_checklist_item) hold none that leads to the target, the
\* operation returns that issue with the 'transition not available' message
\* right after the fetch: it posts no transition and changes no issue.
C5_NoTransitionNoChange ==
  last.op \in SetStatusOps \cup {"complete_checklist_item"} =>
    \A j \in 1..Len(last.log) :
      (/\ IsGetTransitions(last.log[j])
       /\ ~last.log[j].res.raised
       /\ \A m \in 1..Len(last.log[j].res.transitions) :
            last.log[j].res.transitions[m].to # last.target) =>
        /\ last.ret.kind = "unavailable"
        /\ last.ret.issue = last.log[j].req.key
        /\ Len(last.log) = j
        /\ \A h \in 1..Len(last.log) : ~IsPostTransition(last.log[h])
        /\ last.touched = {}

\* C5's case: a checklist item that is Done already cannot be completed, and
\* stays as it is.
C5_Witness ==
  /\ last.op = "complete_checklist_item" /\ last.ret.kind = "unavailable"
  /\ last.ret.issue # last.found
  /\ HasStatus(last.ret.issue, STATUS_DONE)
  /\ last.log[3].res.transitions # <<>>

\* C6: get_next_task returns an issue exactly when the project holds an issue
\* whose status is neither In Progress nor Done, and the issue returned is one.
C6_NextTaskIsAvailable ==
  (last.op = "get_next_task" /\ last.ret.kind # "HTTPError") =>
    LET available == {i \in issues : i.status \notin {STATUS_IN_PROGRESS, STATUS_DONE}}
    IN /\ last.ret.kind = "ok" <=> available # {}
       /\ last.ret.kind = "ok" => last.ret.issue \in Keys(available)
       /\ last.ret.kind # "ok" => last.ret.kind = "none" /\ last.ret.issue = 0

\* C7: after delete_all_tasks has returned, with no other client stepping in,
\* the project holds no issue.
C7_DeleteAllLeavesNone ==
  (last.op = "delete_all_tasks" /\ last.ret.kind = "ok" /\ last.races = 0) =>
    issues = {}

\* C8: get_tasks returns exactly the issues in progress for 'wip', exactly those
\* done for 'done' and every issue for 'all'; the entries of 'wip' are 'wip' and
\* those of 'done' are 'done'.
C8_TasksByFilter ==
  (last.op = "get_tasks" /\ last.ret.kind = "ok") =>
    LET ids == {last.ret.tasks[j].id : j \in 1..Len(last.ret.tasks)}
        sts == {last.ret.tasks[j].status : j \in 1..Len(last.ret.tasks)}
    IN /\ last.target = "wip" =>
            /\ ids = Keys({i \in issues : i.status = STATUS_IN_PROGRESS})
            /\ sts \subseteq {"wip"}
       /\ last.target = "done" =>
            /\ ids = Keys({i \in issues : i.status = STATUS_DONE})
            /\ sts \subseteq {"done"}
       /\ last.target = "all" => ids = Keys(issues)

C10_FirstUnchecked ==
  (last.op = "get_next_unchecked_checklist_item" /\ last.found # 0) =>
    LET unchecked == {i \in issues : i.parent = last.found /\ i.status # STATUS_DONE}
    IN \/ /\ last.ret.kind = "ok"
          /\ last.ret.issue \in Keys(unchecked)
          /\ \A k \in Keys(unchecked) : last.ret.issue <= k
       \/ /\ last.ret.kind = "ChecklistItemNotFoundError"
          /\ unchecked = {}
       \/ /\ last.ret.kind = "HTTPError"
          /\ last.found \notin Keys(issues)

\* C10's case: the item returned follows an earlier item of the same parent
\* that is Done.
C10_Witness ==
  /\ last.op = "get_next_unchecked_checklist_item" /\ last.ret.kind = "ok"
  /\ \E i \in issues :
       i.parent = last.found /\ i.key < last.ret.issue /\ i.status = STATUS_DONE

\* C11: complete_checklist_item, for a found parent, changes at most one issue:
\* the sub-task of that parent its search by name returned, whose status becomes
\* Done; with no other client stepping in, the parent and every other issue are
\* as they were, the success message means the sub-task was moved to Done, and
\* when no sub-task of the parent has the name in its summary the operation
\* raises ChecklistNotFoundError after its two searches, with no request about
\* transitions and no change.
C11_OnlyFoundSubtaskCompleted ==
  [][(last'.op = "complete_checklist_item" /\ last'.found # 0) =>
       LET log == last'.log
           named == {i \in issues : /\ i.parent = last'.found
                                    /\ Contains(i.summary, last'.text)}
           got == IF Len(log) >= 2 THEN {Returned(log[2])[j].key :
                                           j \in 1..Len(Returned(log[2]))}
                  ELSE {}
       IN /\ Len(log) >= 2 /\ IsSearch(log[2])
          /\ log[2].req.jql.parent = last'.found
          /\ log[2].req.jql.summary = last'.text
          /\ Cardinality(got) <= 1
          /\ last'.touched \subseteq got
          /\ \A j \in 1..Len(log) :
               (IsGetTransitions(log[j]) \/ IsPostTransition(log[j])) =>
                 log[j].req.key \in got
          /\ \A k \in last'.touched :
               \E i \in issues' : /\ i.key = k /\ i.parent = last'.found
                                  /\ Contains(i.summary, last'.text)
                                  /\ i.status = STATUS_DONE
          /\ last'.ret.kind = "ChecklistNotFoundError" =>
               /\ Len(log) = 2 /\ got = {} /\ last'.touched = {}
          /\ last'.races = 0 =>
               /\ \A i \in issues :
                    \/ i \in issues'
                    \/ i.key \in got /\ [i EXCEPT !.status = STATUS_DONE] \in issues'
               /\ Keys(issues') = Keys(issues)
               /\ last'.ret.kind = "ok" => last'.touched = got /\ got # {}
               /\ named = {} <=> last'.ret.kind = "ChecklistNotFoundError"
               /\ named = {} => issues' = issues]_vars

\* C11's case: one of two sub-tasks of the parent was completed; the other one
\* and the parent are not Done.
C11_Witness ==
  /\ last.op = "complete_checklist_item" /\ last.ret.kind = "ok" /\ last.races = 0
  /\ last.touched = {last.ret.issue}
  /\ HasStatus(last.ret.issue, STATUS_DONE)
  /\ \E i \in issues : i.key = last.found /\ i.status # STATUS_DONE
  /\ \E i \in issues : /\ i.parent = last.found /\ i.key # last.ret.issue
                       /\ i.status # STATUS_DONE

\* The issue keys a request names, and those a round trip gave the client.
KeysNamed(req) == {req.key, req.parent, req.jql.parent} \ {0}
KeysGiven(e) ==
  {Returned(e)[j].key : j \in 1..Len(Returned(e))}
    \cup (IF e.res.raised \/ e.res.none THEN {} ELSE {e.res.key} \ {0})

C13_RequestsInSequence ==
  LET log == last.log
  IN /\ \A j \in 1..(Len(log) - 1) : ~log[j].res.raised
     /\ last.op = "set_task_status" =>
          /\ Len(log) \in 1..3
          /\ IsSearch(log[1]) /\ log[1].req.jql = TitleJql(last.title)
          /\ Len(log) >= 2 <=> Returned(log[1]) # <<>>
          /\ Len(log) >= 2 =>
               /\ IsGetTransitions(log[2])
               /\ log[2].req.key = Returned(log[1])[1].key
               /\ Len(log) = 3 <=>
                    /\ ~log[2].res.raised
                    /\ \E m \in 1..Len(log[2].res.transitions) :
                         log[2].res.transitions[m].to = last.target
          /\ Len(log) = 3 =>
               /\ IsPostTransition(log[3])
               /\ log[3].req.key = log[2].req.key
               /\ \E m \in 1..Len(log[2].res.transitions) :
                    /\ log[2].res.transitions[m].to = last.target
                    /\ log[2].res.transitions[m].id = log[3].req.id

\* C13's case: set_task_status has sent its three requests, and another client
\* stepped in between two of them.
C13_Witness ==
  /\ last.op = "set_task_status" /\ last.ret.kind = "ok"
  /\ Len(last.log) = 3 /\ IsPostTransition(last.log[3])
  /\ last.races = 1

NormalizeOps ==
  {"utils.normalize_status", "TaskQueryManager._normalize_status",
   "JiraTaskManager._normalize_status"}

\* C14: each copy of the status normalization returns, for every status name,
\* one of 'todo', 'wip' and 'done': 'done' for 'Done', 'wip' for 'In Progress',
\* 'todo' for every other name; the value a copy returned is the value both
\* other copies return for that name; and every status in a list of get_tasks
\* is that value for the status of the issue.
C14_NormalizeStatusTotal ==
  /\ last.op \in NormalizeOps =>
       /\ last.ret.status \in {"todo", "wip", "done"}
       /\ last.target = "Done" <=> last.ret.status = "done"
       /\ last.target = "In Progress" <=> last.ret.status = "wip"
       /\ last.target \notin {"Done", "In Progress"} <=> last.ret.status = "todo"
       /\ last.ret.status = normalize_status(last.target)
       /\ last.ret.status = _normalize_status(last.target)
       /\ last.ret.status = JiraTaskManager_normalize_status(last.target)
  /\ (last.op = "get_tasks" /\ last.ret.kind = "ok") =>
       \A j \in 1..Len(last.ret.tasks) :
         \E i \in issues :
           /\ i.key = last.ret.tasks[j].id
           /\ last.ret.tasks[j].status = normalize_status(i.status)
           /\ last.ret.tasks[j].status = JiraTaskManager_normalize_status(i.status)
           /\ last.ret.tasks[j].status \in {"todo", "wip", "done"}

\* C14's case: a status name that is none of the three fixed ones, differing
\* from 'Done' in case only, was normalized to 'todo'.
C14_Witness ==
  /\ last.op = "JiraTaskManager._normalize_status"
  /\ last.target = "DONE"
  /\ last.ret.status = "todo"
====
